---- MODULE Spec2Model ----
(***************************************************************************)
(* Model of tools/component_generator.py: the category registry, the      *)
(* identifier transforms, the template renderers, generate_component,     *)
(* generate_category_batch and main, over a filesystem of directories and *)
(* files.                                                                  *)
(*                                                                         *)
(* A Python str is a sequence of TLA+ strings: text that comes from the   *)
(* command line (names, categories, commands) is spelled one character    *)
(* per element, so that title(), upper(), replace() and split() are       *)
(* computed character by character; the literal text of a template or a   *)
(* message is a chunk, one element per literal piece.                      *)
(***************************************************************************)
EXTENDS Integers, Sequences, FiniteSets, TLC

VARIABLES fs, today, runs, sys_argv, pc, mode, pending, frame, step, out,
          err, calls, oplog, startFs, lastDone, rin, rout

vars == <<fs, today, runs, sys_argv, pc, mode, pending, frame, step, out,
          err, calls, oplog, startFs, lastDone, rin, rout>>

(* ------------------------------ bounds --------------------------------- *)
MaxRuns == 2

None == <<"<none>">>

\* the days the clock can show
Days == {1, 2}

(* ------------------------- Python str methods -------------------------- *)
LowerLetters == <<"a","b","c","d","e","f","g","h","i","j","k","l","m",
                  "n","o","p","q","r","s","t","u","v","w","x","y","z">>
UpperLetters == <<"A","B","C","D","E","F","G","H","I","J","K","L","M",
                  "N","O","P","Q","R","S","T","U","V","W","X","Y","Z">>

IsLower(c) == \E i \in 1..26 : LowerLetters[i] = c
IsUpper(c) == \E i \in 1..26 : UpperLetters[i] = c
IsCased(c) == IsLower(c) \/ IsUpper(c)
ToUpper(c) == IF IsLower(c) THEN UpperLetters[CHOOSE i \in 1..26 : LowerLetters[i] = c] ELSE c
ToLower(c) == IF IsUpper(c) THEN LowerLetters[CHOOSE i \in 1..26 : UpperLetters[i] = c] ELSE c

\* str.title(): a cased character is upper-cased when the character before
\* it is not cased (or there is none) and lower-cased otherwise.
str_title(s) ==
  [i \in 1..Len(s) |->
     IF IsCased(s[i])
     THEN IF i > 1 /\ IsCased(s[i-1]) THEN ToLower(s[i]) ELSE ToUpper(s[i])
     ELSE s[i]]

str_upper(s) == [i \in 1..Len(s) |-> ToUpper(s[i])]

\* str.replace(old, new, 1): the first occurrence only
str_replace_first(s, old, new) ==
  IF \A i \in 1..Len(s) : s[i] # old THEN s
  ELSE LET k == CHOOSE i \in 1..Len(s) : s[i] = old /\ \A j \in 1..(i-1) : s[j] # old
       IN  SubSeq(s, 1, k-1) \o new \o SubSeq(s, k+1, Len(s))

\* str.replace(old, new) for a one-character old; new is a str.
RECURSIVE str_replace(_, _, _)
str_replace(s, old, new) ==
  IF s = <<>> THEN <<>>
  ELSE (IF Head(s) = old THEN new ELSE <<Head(s)>>) \o str_replace(Tail(s), old, new)

\* str.split(sep) for a one-character sep: always at least one element.
RECURSIVE str_split(_, _)
str_split(s, sep) ==
  IF \A i \in 1..Len(s) : s[i] # sep THEN <<s>>
  ELSE LET k == CHOOSE i \in 1..Len(s) : s[i] = sep /\ \A j \in 1..(i-1) : s[j] # sep
       IN  <<SubSeq(s, 1, k-1)>> \o str_split(SubSeq(s, k+1, Len(s)), sep)

\* sep.join(list)
RECURSIVE str_join(_, _)
str_join(sep, l) ==
  IF l = <<>> THEN <<>>
  ELSE IF Len(l) = 1 THEN l[1]
  ELSE l[1] \o sep \o str_join(sep, Tail(l))

(* --------------------------- category registry ------------------------- *)
k_auth == <<"a","u","t","h">>
k_payments == <<"p","a","y","m","e","n","t","s">>
k_dashboard == <<"d","a","s","h","b","o","a","r","d">>
k_ecommerce == <<"e","c","o","m","m","e","r","c","e">>
k_communication == <<"c","o","m","m","u","n","i","c","a","t","i","o","n">>
k_cms == <<"c","m","s">>
k_ui == <<"u","i">>
k_integrations == <<"i","n","t","e","g","r","a","t","i","o","n","s">>

\* the keys of COMPONENT_CATEGORIES in insertion order
CategoryKeys == <<k_auth, k_payments, k_dashboard, k_ecommerce,
                  k_communication, k_cms, k_ui, k_integrations>>

CategoryInfo ==
  << [description |-> <<"Authentication and authorization components">>,
      examples |-> << <<"jwt-authentication">>, <<"oauth2-providers">>, <<"role-based-access">> >>],
     [description |-> <<"Payment processing and billing components">>,
      examples |-> << <<"stripe-integration">>, <<"subscription-billing">>, <<"invoice-generation">> >>],
     [description |-> <<"Dashboard, analytics and monitoring components">>,
      examples |-> << <<"admin-dashboard">>, <<"analytics-widgets">>, <<"real-time-metrics">> >>],
     [description |-> <<"E-commerce and marketplace components">>,
      examples |-> << <<"product-catalog">>, <<"shopping-cart">>, <<"order-management">> >>],
     [description |-> <<"Communication and messaging components">>,
      examples |-> << <<"email-templates">>, <<"chat-system">>, <<"push-notifications">> >>],
     [description |-> <<"Content management system components">>,
      examples |-> << <<"blog-system">>, <<"page-builder">>, <<"media-management">> >>],
     [description |-> <<"User interface and design system components">>,
      examples |-> << <<"design-system">>, <<"form-builders">>, <<"data-tables">> >>],
     [description |-> <<"Third-party service integrations">>,
      examples |-> << <<"google-analytics">>, <<"social-media-apis">>, <<"crm-integrations">> >>] >>

\* COMPONENT_CATEGORIES.items(), in order
COMPONENT_CATEGORIES ==
  [i \in 1..Len(CategoryKeys) |-> [key |-> CategoryKeys[i], info |-> CategoryInfo[i]]]

\* category in COMPONENT_CATEGORIES
InCategories(category) == \E i \in 1..Len(CategoryKeys) : CategoryKeys[i] = category

(* ------------------------------ filesystem ----------------------------- *)
\* A path is a sequence of segments; fs maps each existing path to an
\* entry.  The working directory <<>> always exists.
Dir == [kind |-> "dir", content |-> <<>>]
File(content) == [kind |-> "file", content |-> content]
EmptyFs == (<<>> :> Dir)

Parent(p) == SubSeq(p, 1, Len(p) - 1)
IsPrefix(p, q) == Len(p) <= Len(q) /\ SubSeq(q, 1, Len(p)) = p
Ok(f) == [fs |-> f, err |-> "ok"]
Raise(f, e) == [fs |-> f, err |-> e]

\* os.mkdir(p)
OsMkdir(f, p) ==
  IF p \in DOMAIN f THEN Raise(f, "FileExistsError")
  ELSE IF Parent(p) \notin DOMAIN f THEN Raise(f, "FileNotFoundError")
  ELSE IF f[Parent(p)].kind # "dir" THEN Raise(f, "NotADirectoryError")
  ELSE Ok(f @@ (p :> Dir))

\* Path.mkdir(parents=..., exist_ok=...)
RECURSIVE Mkdir(_, _, _, _)
Mkdir(f, p, parents, exist_ok) ==
  LET r == OsMkdir(f, p)
  IN  IF r.err = "FileNotFoundError"
      THEN IF ~parents \/ p = <<>> THEN r
           ELSE LET up == Mkdir(f, Parent(p), TRUE, TRUE)
                IN  IF up.err # "ok" THEN up ELSE Mkdir(up.fs, p, FALSE, exist_ok)
      ELSE IF r.err = "FileExistsError"
      THEN IF ~exist_ok \/ f[p].kind # "dir" THEN r ELSE Ok(f)
      ELSE r

\* open(p, 'w') followed by f.write(content)
OpenW(f, p) ==
  IF p \in DOMAIN f /\ f[p].kind = "dir" THEN Raise(f, "IsADirectoryError")
  ELSE IF Parent(p) \notin DOMAIN f THEN Raise(f, "FileNotFoundError")
  ELSE IF f[Parent(p)].kind # "dir" THEN Raise(f, "NotADirectoryError")
  ELSE Ok([q \in (DOMAIN f) \cup {p} |-> IF q = p THEN File(<<>>) ELSE f[q]])

\* open(p, 'a'): the content is appended to what the file holds
WriteFileAppend(f, p, content) ==
  IF p \in DOMAIN f /\ f[p].kind = "file"
  THEN Ok([q \in DOMAIN f |-> IF q = p THEN File(f[p].content \o content) ELSE f[q]])
  ELSE Ok(f @@ (p :> File(content)))

WriteFile(f, p, content) ==
  LET o == OpenW(f, p)
  IN  IF o.err # "ok" THEN o
      ELSE Ok([q \in DOMAIN o.fs |-> IF q = p THEN File(content) ELSE o.fs[q]])

(* --------------------------- template renderers ------------------------ *)
\* datetime.now().strftime("%Y-%m-%d") of the day the clock shows
strftime(day) == <<"2025-01-0" \o ToString(day)>>

create_component_manifest_yaml(name, category, description) ==
  LET titled == str_title(name)
  IN  <<"name: ">> \o name \o <<"\n", "version: \"1.0.0\"\ndescription: \"">> \o description
      \o <<"\"\nauthor: rust-form\nhomepage: \"https://github.com/rust-form/">> \o name
      \o <<"\"\nkeywords:\n  - ">> \o category
      \o <<"\n  - rust-form\n  - component\n\napi_compatibility: 0.1.0..0.2.0\n\ndependencies: {}\n\nfiles: handlers.rs.tera, models.rs.tera, middleware.rs.tera\n\nprovides:\n  templates:\n    - name: \"handlers.rs.tera\"\n      description: \"">>
      \o titled \o <<" request handlers\"\n      target: Backend\n    - name: \"models.rs.tera\"\n      description: \"">>
      \o titled \o <<" data models\"\n      target: Backend\n    - name: \"middleware.rs.tera\"\n      description: \"">>
      \o titled \o <<" middleware\"\n      target: Backend\n  assets: []\n  hooks: []">>

create_handlers_template(name, category) ==
  LET pascal == str_replace(str_title(name), "-", <<>>)
      spaced == str_replace(name, "-", <<" ">>)
      snake  == str_replace(name, "-", <<"_">>)
  IN  <<"use axum::{...};\nuse serde::{Deserialize, Serialize};\nuse sqlx::SqlitePool;\n\nuse crate::{models::*, error::*};\n\n#[derive(Debug, Serialize, Deserialize)]\n", "pub struct ">>
      \o pascal \o <<"Request", " {\n    pub name: String,\n}\n\n#[derive(Debug, Serialize, Deserialize)]\n", "pub struct ">>
      \o pascal \o <<"Response", " {\n    pub id: i64,\n    pub name: String,\n    pub created_at: chrono::DateTime<chrono::Utc>,\n}\n\n/// Create new ">>
      \o spaced \o <<"\npub async fn create_">> \o snake
      \o <<"(\n    State(pool): State<SqlitePool>,\n    Json(request): Json<">> \o pascal \o <<"Request", ">,\n) -> Result<Json<">>
      \o pascal \o <<"Response", ">, AppError> {\n    todo!(\"Implement ">> \o name \o <<" creation\")\n}\n\n/// Get ">>
      \o spaced \o <<" by ID\npub async fn get_">> \o snake
      \o <<"_by_id(\n    State(pool): State<SqlitePool>,\n    Path(id): Path<i64>,\n) -> Result<Json<">>
      \o pascal \o <<"Response", ">, AppError> {\n    todo!(\"Implement ">> \o name \o <<" retrieval\")\n}\n\n/// Update ">>
      \o spaced \o <<"\npub async fn update_">> \o snake
      \o <<"(\n    State(pool): State<SqlitePool>,\n    Path(id): Path<i64>,\n    Json(request): Json<">> \o pascal \o <<"Request", ">,\n) -> Result<Json<">>
      \o pascal \o <<"Response", ">, AppError> {\n    todo!(\"Implement ">> \o name \o <<" update\")\n}\n\n/// Delete ">>
      \o spaced \o <<"\npub async fn delete_">> \o snake
      \o <<"(\n    State(pool): State<SqlitePool>,\n    Path(id): Path<i64>,\n) -> Result<StatusCode, AppError> {\n    todo!(\"Implement ">>
      \o name \o <<" deletion\")\n}\n\n/// Get ">> \o spaced \o <<" routes\npub fn ">> \o snake
      \o <<"_routes() -> Router<SqlitePool> {\n    Router::new()\n        ", ".route(\"/">> \o snake \o <<"\"", ", post(create_">> \o snake
      \o <<"))\n        ", ".route(\"/">> \o snake \o <<"/{id}\"", ", get(get_">> \o snake
      \o <<"_by_id))\n        ", ".route(\"/">> \o snake \o <<"/{id}\"", ", put(update_">> \o snake
      \o <<"))\n        ", ".route(\"/">> \o snake \o <<"/{id}\"", ", delete(delete_">> \o snake \o <<"))\n}\n">>

\* the record type named without title()
create_models_template_untitled(name, category) ==
  LET pascal == str_replace(name, "-", <<>>)
      spaced == str_replace(name, "-", <<" ">>)
      snake  == str_replace(name, "-", <<"_">>)
  IN  <<"use serde::{Deserialize, Serialize};\nuse sqlx::{FromRow, SqlitePool};\nuse chrono::{DateTime, Utc};\n\n#[derive(Debug, Clone, Serialize, Deserialize, FromRow)]\n", "pub struct ">>
      \o pascal \o <<" {", "\n    pub id: i64,\n    pub name: String,\n    pub created_at: DateTime<Utc>,\n    pub updated_at: DateTime<Utc>,\n}\n\n", "impl ">>
      \o pascal \o <<" {\n    /// Create a new ">> \o spaced
      \o <<"\n    pub async fn create(pool, name) {\n        sqlx::query_as!(Self, r#\"\n            ", "INSERT INTO ">> \o snake
      \o <<" (name, created_at, updated_at)", "\n            VALUES (?1, ?2, ?2)\n            RETURNING id, name, created_at, updated_at\n    }\n\n    /// Find ">>
      \o spaced \o <<" by ID\n    pub async fn find_by_id(pool, id) {\n        \"SELECT id, name, created_at, updated_at ", "FROM ">> \o snake
      \o <<" WHERE id = ?1", "\"\n    }\n\n    /// Update ">> \o spaced
      \o <<"\n    pub async fn update(&mut self, pool, name) {\n        r#\"\n            ", "UPDATE ">> \o snake
      \o <<"\n            SET name = ?1, updated_at = ?2", "\n            WHERE id = ?3\n    }\n\n    /// Delete ">> \o spaced
      \o <<"\n    pub async fn delete(pool, id) {\n        sqlx::query!(\"", "DELETE FROM ">> \o snake
      \o <<" WHERE id = ?1", "\", id)\n    }\n\n    /// List all ">> \o spaced
      \o <<"s\n    pub async fn list(pool) {\n        \"SELECT id, name, created_at, updated_at ", "FROM ">> \o snake
      \o <<" ORDER BY created_at DESC", "\"\n    }\n}\n">>

create_models_template(name, category) ==
  LET pascal == str_replace(str_title(name), "-", <<>>)
      spaced == str_replace(name, "-", <<" ">>)
      snake  == str_replace(name, "-", <<"_">>)
  IN  <<"use serde::{Deserialize, Serialize};\nuse sqlx::{FromRow, SqlitePool};\nuse chrono::{DateTime, Utc};\n\n#[derive(Debug, Clone, Serialize, Deserialize, FromRow)]\n", "pub struct ">>
      \o pascal \o <<" {", "\n    pub id: i64,\n    pub name: String,\n    pub created_at: DateTime<Utc>,\n    pub updated_at: DateTime<Utc>,\n}\n\n", "impl ">>
      \o pascal \o <<" {\n    /// Create a new ">> \o spaced
      \o <<"\n    pub async fn create(pool, name) {\n        sqlx::query_as!(Self, r#\"\n            ", "INSERT INTO ">> \o snake
      \o <<" (name, created_at, updated_at)", "\n            VALUES (?1, ?2, ?2)\n            RETURNING id, name, created_at, updated_at\n    }\n\n    /// Find ">>
      \o spaced \o <<" by ID\n    pub async fn find_by_id(pool, id) {\n        \"SELECT id, name, created_at, updated_at ", "FROM ">> \o snake
      \o <<" WHERE id = ?1", "\"\n    }\n\n    /// Update ">> \o spaced
      \o <<"\n    pub async fn update(&mut self, pool, name) {\n        r#\"\n            ", "UPDATE ">> \o snake
      \o <<"\n            SET name = ?1, updated_at = ?2", "\n            WHERE id = ?3\n    }\n\n    /// Delete ">> \o spaced
      \o <<"\n    pub async fn delete(pool, id) {\n        sqlx::query!(\"", "DELETE FROM ">> \o snake
      \o <<" WHERE id = ?1", "\", id)\n    }\n\n    /// List all ">> \o spaced
      \o <<"s\n    pub async fn list(pool) {\n        \"SELECT id, name, created_at, updated_at ", "FROM ">> \o snake
      \o <<" ORDER BY created_at DESC", "\"\n    }\n}\n">>

create_middleware_template(name, category) ==
  LET titled == str_replace(str_title(name), "-", <<" ">>)
      snake  == str_replace(name, "-", <<"_">>)
  IN  <<"use axum::{...};\nuse tracing::{info, warn};\n\n/// ">> \o titled \o <<" middleware\npub async fn ">> \o snake
      \o <<"_middleware(headers, request, next) {\n    info!(\"Processing request through ">> \o name
      \o <<" middleware\");\n    // Add ">> \o name \o <<" specific middleware logic here\n    let response = next.run(request).await;\n    info!(\"Completed ">>
      \o name \o <<" middleware processing\");\n    Ok(response)\n}\n\n/// ">> \o titled
      \o <<" validation middleware\npub async fn validate_">> \o snake
      \o <<"_request(request, next) {\n    let response = next.run(request).await;\n    Ok(response)\n}\n\n/// ">> \o titled
      \o <<" logging middleware\npub async fn log_">> \o snake
      \o <<"_activity(request, next) {\n    info!(\"{} {} - ">> \o name
      \o <<" activity\", method, uri);\n    let response = next.run(request).await;\n    Ok(response)\n}\n">>

\* one of the eight placeholder tests of lib_test.rs
TestCase(name, what, comment, message) ==
  LET titled == str_replace(str_title(name), "-", <<" ">>)
      snake  == str_replace(name, "-", <<"_">>)
  IN  <<"    #[test]\n    fn test_">> \o snake \o <<"_" \o what \o "() {\n        // Test ">> \o name
      \o <<comment \o "\n        assert!(true, \"">> \o titled \o <<message \o "\");\n    }\n\n">>

create_test_template(name, category) ==
  LET snake == str_replace(name, "-", <<"_">>)
  IN  <<"#[cfg(test)]\nmod ">> \o snake \o <<"_tests {\n    use super::*;\n    use std::collections::HashMap;\n\n">>
      \o TestCase(name, "creation", " creation logic", " creation should work")
      \o TestCase(name, "validation", " validation logic", " validation should work")
      \o <<"    #[test]\n    fn test_">> \o snake \o <<"_configuration() {\n        // Test ">> \o name
      \o <<" configuration\n        let config = HashMap::new();\n        assert!(config.is_empty(), \"Empty config should be valid\");\n    }\n\n">>
      \o TestCase(name, "integration", " integration with other components", " should integrate properly")
      \o TestCase(name, "error_handling", " error handling", " should handle errors gracefully")
      \o TestCase(name, "performance", " performance characteristics", " should perform well")
      \o TestCase(name, "security", " security features", " should be secure")
      \o TestCase(name, "compatibility", " API compatibility", " should be API compatible")
      \o <<"}\n">>

create_readme(name, category, description) ==
  LET titled == str_replace(str_title(name), "-", <<" ">>)
      pascal == str_replace(str_title(name), "-", <<>>)
      spaced == str_replace(name, "-", <<" ">>)
      snake  == str_replace(name, "-", <<"_">>)
      ref    == <<"  ">> \o name \o <<": \"path:./components/">> \o category \o <<"/">> \o name \o <<"\"\n">>
  IN  <<"# ">> \o titled \o <<" Component\n\n">> \o description \o <<"\n\n## Category\n">> \o str_title(category)
      \o <<"\n\n## Features\n- Feature 1: Core ">> \o spaced \o <<" functionality\n- Feature 2: Advanced ">> \o spaced
      \o <<" configuration\n- Feature 3..5\n\n## Installation\n'''yaml\ncomponents:\n">> \o ref
      \o <<"'''\n\n## Configuration\n### Basic Usage\n'''yaml\nproject_name: my_app\ncomponents:\n">> \o ref
      \o <<"api: ...\n'''\n\n### Advanced Configuration\n'''yaml\n">> \o name
      \o <<"_settings:\n  feature_enabled: true\n'''\n\n## API Reference\n### Handlers\n- 'create_">> \o snake
      \o <<"': Create new ">> \o spaced \o <<"\n- 'get_">> \o snake \o <<"_by_id': Retrieve ">> \o spaced
      \o <<" by ID\n- 'update_">> \o snake \o <<"': Update existing ">> \o spaced \o <<"\n- 'delete_">> \o snake
      \o <<"': Delete ">> \o spaced \o <<"\n\n### Models\n- '">> \o pascal \o <<"': Main data model for ">> \o spaced
      \o <<"\n\n### Middleware\n- '">> \o snake \o <<"_middleware': Core ">> \o spaced \o <<" middleware\n- 'validate_">> \o snake
      \o <<"_request': Request validation\n- 'log_">> \o snake
      \o <<"_activity': Activity logging\n\n## Examples\n...\n## Testing\n'''bash\nrustform component test components/">>
      \o category \o <<"/">> \o name \o <<"\n'''\n\n## Contributing\n...\n## License\n...\n## Changelog\n### v1.0.0\n- Initial release\n- Core ">>
      \o spaced \o <<" functionality\n- Basic integration with rust-form\n- Comprehensive test suite\n">>

create_cargo_toml(name) ==
  <<"[package]\nname = \"">> \o name \o <<"\"\nversion = \"1.0.0\"\nedition = \"2021\"\ndescription = \"">>
  \o str_replace(str_title(name), "-", <<" ">>) \o <<" component for rust-form\"\n\n[workspace]\n\n[lib]\nname = \"">>
  \o str_replace(name, "-", <<"_">>) \o <<"\"\npath = \"src/lib_test.rs\"\n\n[dependencies]\n">>

\* day is what datetime.now() returns when the changelog is rendered
create_changelog(name, day) ==
  LET titled == str_replace(str_title(name), "-", <<" ">>)
  IN  <<"# Changelog\n\nAll notable changes to the ">> \o titled
      \o <<" component will be documented in this file.\n\n## [1.0.0] - ">> \o strftime(day)
      \o <<"\n\n### Added\n- Initial release of ">> \o titled
      \o <<" component\n- Core functionality implementation\n...\n### Security\n- Input validation and sanitization\n...\n">>

\* the three f-strings of the examples list
ExampleText(name, category, title, suffix, rest) ==
  <<"# " \o title \o " example for ">> \o name \o <<"\nproject_name: ">> \o str_replace(name, "-", <<"_">>)
  \o <<suffix \o "\nversion: \"0.1.0\"\n\ncomponents:\n  ">> \o name \o <<": \"path:../../../">> \o category \o <<"/">> \o name
  \o <<"\"\n" \o rest>>

\* the four f-strings of the docs list
DocText(name, title, body) ==
  <<"# ">> \o str_replace(str_title(name), "-", <<" ">>) \o <<" " \o title \o "\\n\\n" \o body>>

(* --------------------------- generate_component ------------------------ *)
seg_src == <<"src">>
seg_frontend == <<"frontend">>
seg_examples == <<"examples">>
seg_docs == <<"docs">>
seg_assets == <<"assets">>

\* Path(base_path) / category / name
ComponentPath(base_path, category, name) == <<base_path, category, name>>

\* the mkdir calls with the one for docs/ left out
DirStepsWithoutDocs ==
  << [rel |-> <<>>, parents |-> TRUE],
     [rel |-> <<seg_src>>, parents |-> FALSE],
     [rel |-> <<seg_frontend, <<"components">> >>, parents |-> TRUE],
     [rel |-> <<seg_frontend, <<"hooks">> >>, parents |-> FALSE],
     [rel |-> <<seg_frontend, <<"types">> >>, parents |-> FALSE],
     [rel |-> <<seg_examples>>, parents |-> FALSE],
     [rel |-> <<seg_assets, <<"icons">> >>, parents |-> TRUE],
     [rel |-> <<seg_assets, <<"styles">> >>, parents |-> FALSE],
     [rel |-> <<seg_assets, <<"images">> >>, parents |-> FALSE] >>

\* the ten mkdir calls, in program order
DirSteps ==
  << [rel |-> <<>>, parents |-> TRUE],
     [rel |-> <<seg_src>>, parents |-> FALSE],
     [rel |-> <<seg_frontend, <<"components">> >>, parents |-> TRUE],
     [rel |-> <<seg_frontend, <<"hooks">> >>, parents |-> FALSE],
     [rel |-> <<seg_frontend, <<"types">> >>, parents |-> FALSE],
     [rel |-> <<seg_examples>>, parents |-> FALSE],
     [rel |-> <<seg_docs>>, parents |-> FALSE],
     [rel |-> <<seg_assets, <<"icons">> >>, parents |-> TRUE],
     [rel |-> <<seg_assets, <<"styles">> >>, parents |-> FALSE],
     [rel |-> <<seg_assets, <<"images">> >>, parents |-> FALSE] >>

MkdirExistOk == TRUE

files_to_create(name, category, description, day) ==
  << [rel |-> << <<"rustform-component.yml">> >>, content |-> create_component_manifest_yaml(name, category, description)],
     [rel |-> << <<"README.md">> >>, content |-> create_readme(name, category, description)],
     [rel |-> << <<"CHANGELOG.md">> >>, content |-> create_changelog(name, day)],
     [rel |-> << <<"Cargo.toml">> >>, content |-> create_cargo_toml(name)],
     [rel |-> << <<"handlers.rs.tera">> >>, content |-> create_handlers_template(name, category)],
     [rel |-> << <<"models.rs.tera">> >>, content |-> create_models_template(name, category)],
     [rel |-> << <<"middleware.rs.tera">> >>, content |-> create_middleware_template(name, category)],
     [rel |-> <<seg_src, <<"lib_test.rs">> >>, content |-> create_test_template(name, category)] >>

\* examples with the third entry given the first entry's filename
examples_same_filename(name, category) ==
  << [rel |-> <<seg_examples, <<"basic-usage.yml">> >>,
      content |-> ExampleText(name, category, "Basic usage", "_example", "\ndatabase: ...\n")],
     [rel |-> <<seg_examples, <<"advanced-config.yml">> >>,
      content |-> ExampleText(name, category, "Advanced configuration", "_advanced", "\n")],
     [rel |-> <<seg_examples, <<"basic-usage.yml">> >>,
      content |-> ExampleText(name, category, "Integration test", "_integration_test", "\n")] >>

examples(name, category) ==
  << [rel |-> <<seg_examples, <<"basic-usage.yml">> >>,
      content |-> ExampleText(name, category, "Basic usage", "_example",
                    "\ndatabase:\n  type: sqlite\n  url_env: DATABASE_URL\n\napi:\n  models:\n    Example: ...\n  endpoints:\n    - path: /examples\n")],
     [rel |-> <<seg_examples, <<"advanced-config.yml">> >>,
      content |-> ExampleText(name, category, "Advanced configuration", "_advanced",
                    "\n# Add advanced configuration here\n")],
     [rel |-> <<seg_examples, <<"integration-test.yml">> >>,
      content |-> ExampleText(name, category, "Integration test", "_integration_test",
                    "\n# Add integration test configuration here\n")] >>

\* docs with the first entry written over the README of the first loop
docs_over_readme(name) ==
  << [rel |-> << <<"README.md">> >>,
      content |-> DocText(name, "Installation Guide", "Detailed installation instructions...")],
     [rel |-> <<seg_docs, <<"configuration.md">> >>,
      content |-> DocText(name, "Configuration", "Configuration options and examples...")],
     [rel |-> <<seg_docs, <<"api-reference.md">> >>,
      content |-> DocText(name, "API Reference", "Complete API documentation...")],
     [rel |-> <<seg_docs, <<"migration-guide.md">> >>,
      content |-> DocText(name, "Migration Guide", "Upgrade and migration instructions...")] >>

docs(name) ==
  << [rel |-> <<seg_docs, <<"installation.md">> >>,
      content |-> DocText(name, "Installation Guide", "Detailed installation instructions...")],
     [rel |-> <<seg_docs, <<"configuration.md">> >>,
      content |-> DocText(name, "Configuration", "Configuration options and examples...")],
     [rel |-> <<seg_docs, <<"api-reference.md">> >>,
      content |-> DocText(name, "API Reference", "Complete API documentation...")],
     [rel |-> <<seg_docs, <<"migration-guide.md">> >>,
      content |-> DocText(name, "Migration Guide", "Upgrade and migration instructions...")] >>

\* str(path)
PathStr(p) == str_join(<<"/">>, p)

FramePath == ComponentPath(frame.base_path, frame.category, frame.name)

\* the list the loop at pc is iterating over
LoopList ==
  IF pc = "gen_write_core" THEN files_to_create(frame.name, frame.category, frame.description, frame.day)
  ELSE IF pc = "gen_write_examples" THEN examples(frame.name, frame.category)
  ELSE docs(frame.name)

\* where control goes when the loop at pc is exhausted
AfterLoop ==
  IF pc = "gen_write_core" THEN "gen_write_examples"
  ELSE IF pc = "gen_write_examples" THEN "gen_write_docs"
  ELSE "gen_summary"

InWriteLoop == pc \in {"gen_write_core", "gen_write_examples", "gen_write_docs"}

\* the exception caught and recorded, the caller carrying on
FatalSwallowed(e) ==
  /\ pc' = pc
  /\ err' = e

\* an uncaught exception: the traceback ends the process
Fatal(e) ==
  /\ pc' = "fatal"
  /\ err' = e

\* entry of generate_component(name, category, description, base_path)
CallGenerate(name, category, description, via) ==
  /\ frame' = [name |-> name, category |-> category, description |-> description,
               base_path |-> <<"components">>, day |-> 0, via |-> via]
  /\ pc' = "gen_mkdir"
  /\ step' = 1
  /\ calls' = Append(calls, name)
  /\ oplog' = <<>>
  /\ startFs' = fs

\* lines 563-574: one mkdir call
GenMkdir ==
  /\ pc = "gen_mkdir"
  /\ LET d == DirSteps[step]
         p == FramePath \o d.rel
         r == Mkdir(fs, p, d.parents, MkdirExistOk)
     IN  /\ fs' = r.fs
         /\ IF r.err = "ok"
            THEN /\ oplog' = Append(oplog, [op |-> "mkdir", path |-> p])
                 /\ IF step < Len(DirSteps)
                    THEN pc' = pc /\ step' = step + 1
                    ELSE pc' = "gen_files" /\ step' = 1
                 /\ UNCHANGED err
            ELSE Fatal(r.err) /\ UNCHANGED <<oplog, step>>
  /\ UNCHANGED <<today, runs, sys_argv, mode, pending, frame, out, calls, startFs, lastDone, rin, rout>>

\* lines 563-574: the mkdir call fails in the operating system
\* (permission denied, disk full)
GenMkdirFault ==
  /\ pc = "gen_mkdir"
  /\ Fatal("OSError")
  /\ UNCHANGED <<fs, today, runs, sys_argv, mode, pending, frame, step, out, calls, oplog, startFs, lastDone, rin, rout>>

\* the clock advances; the program observes it only at line 531
Tick ==
  /\ pc = "gen_files"
  /\ \E d \in Days : d > today /\ today' = d
  /\ UNCHANGED <<fs, runs, sys_argv, pc, mode, pending, frame, step, out, err, calls, oplog, startFs, lastDone, rin, rout>>

\* lines 577-586: the renderers run, create_changelog reads the clock
GenFilesToCreate ==
  /\ pc = "gen_files"
  /\ frame' = [frame EXCEPT !.day = today]
  /\ pc' = "gen_write_core"
  /\ step' = 1
  /\ UNCHANGED <<fs, today, runs, sys_argv, mode, pending, out, err, calls, oplog, startFs, lastDone, rin, rout>>

\* lines 588-591, 647-650, 660-663: one iteration of a write loop
GenWrite ==
  /\ InWriteLoop
  /\ LET list == LoopList
         e == list[step]
         p == FramePath \o e.rel
         r == WriteFile(fs, p, e.content)
     IN  /\ fs' = r.fs
         /\ IF r.err = "ok"
            THEN /\ oplog' = Append(oplog, [op |-> "write", path |-> p])
                 /\ IF step < Len(list)
                    THEN pc' = pc /\ step' = step + 1
                    ELSE pc' = AfterLoop /\ step' = 1
                 /\ UNCHANGED err
            ELSE Fatal(r.err) /\ UNCHANGED <<oplog, step>>
  /\ UNCHANGED <<today, runs, sys_argv, mode, pending, frame, out, calls, startFs, lastDone, rin, rout>>

\* the component directory removed when a write fails
AfterWriteFaultCleanup(f, p, opened) ==
  [q \in {q \in DOMAIN f : ~IsPrefix(SubSeq(p, 1, 3), q)} |-> f[q]]

\* lines 590-591: what a failed write leaves: the filesystem as it was when
\* open() failed, the file created or truncated when write() failed
AfterWriteFault(f, p, opened) == IF opened THEN OpenW(f, p).fs ELSE f

\* lines 590-591: open() fails, or write() fails after open() succeeded
GenWriteFault ==
  /\ InWriteLoop
  /\ \E opened \in BOOLEAN :
       LET p == FramePath \o LoopList[step].rel
       IN  /\ opened => OpenW(fs, p).err = "ok"
           /\ fs' = AfterWriteFault(fs, p, opened)
  /\ Fatal("OSError")
  /\ UNCHANGED <<today, runs, sys_argv, mode, pending, frame, step, out, calls, oplog, startFs, lastDone, rin, rout>>

\* lines 665-667, and the return to the caller
GenSummary ==
  /\ pc = "gen_summary"
  /\ out' = out \o
       << <<"Generated component: ">> \o frame.category \o <<"/">> \o frame.name,
          <<"   Path: ">> \o PathStr(FramePath),
          <<"   Files: ", ToString(Len(files_to_create(frame.name, frame.category, frame.description, frame.day))
                                   + Len(examples(frame.name, frame.category))
                                   + Len(docs(frame.name))), " files created">> >>
  /\ lastDone' = [name |-> frame.name, category |-> frame.category, description |-> frame.description,
                  base_path |-> frame.base_path, day |-> frame.day, via |-> frame.via, fs |-> fs]
  /\ pc' = IF mode.kind = "batch" THEN "batch_loop" ELSE "single_after"
  /\ UNCHANGED <<fs, today, runs, sys_argv, mode, pending, frame, step, err, calls, oplog, startFs, rin, rout>>

(* ------------------------ generate_category_batch ---------------------- *)
NoFrame == [name |-> <<>>, category |-> <<>>, description |-> <<>>,
            base_path |-> <<>>, day |-> 0, via |-> "none"]
NoMode == [kind |-> "none", category |-> <<>>, count |-> 0]

\* the description without title(): the name as typed
BatchDescriptionUntitled(component_name, category) ==
  str_replace(component_name, "-", <<" ">>) \o <<" component for ">> \o category \o <<" functionality">>

\* line 674
BatchDescription(component_name, category) ==
  str_replace(str_title(component_name), "-", <<" ">>) \o <<" component for ">> \o category \o <<" functionality">>

\* the loop taking the elements from the end of the list
NextComponentLast(components) == components[Len(components)]

\* line 673: the element the for loop takes next, and those it leaves
NextComponent(components) == Head(components)
RestComponents(components) == Tail(components)

\* lines 673-675: the next iteration of the loop calls generate_component
BatchNext ==
  /\ pc = "batch_loop"
  /\ pending # <<>>
  /\ LET component_name == NextComponent(pending)
     IN  CallGenerate(component_name, mode.category, BatchDescription(component_name, mode.category), "batch")
  /\ pending' = RestComponents(pending)
  /\ UNCHANGED <<fs, today, runs, sys_argv, mode, out, err, lastDone, rin, rout>>

\* line 677
BatchDone ==
  /\ pc = "batch_loop"
  /\ pending = <<>>
  /\ out' = Append(out, <<"Completed ">> \o mode.category \o <<" category - ", ToString(mode.count), " components generated">>)
  /\ pc' = "done"
  /\ UNCHANGED <<fs, today, runs, sys_argv, mode, pending, frame, step, err, calls, oplog, startFs, lastDone, rin, rout>>

(* --------------------------------- main -------------------------------- *)
prog == <<"component_generator.py">>
cmd_list_categories == <<"l","i","s","t","-","c","a","t","e","g","o","r","i","e","s">>
cmd_batch == <<"b","a","t","c","h">>

\* sys.argv[i], Python's index
Argv(i) == sys_argv[i + 1]

RECURSIVE ConcatAll(_)
ConcatAll(ll) == IF ll = <<>> THEN <<>> ELSE Head(ll) \o ConcatAll(Tail(ll))

\* lines 682-689
UsageLines ==
  << <<"Usage: python component_generator.py <category> <component-name> [description]">>,
     <<"       python component_generator.py batch <category> <component1,component2,...>">>,
     <<"       python component_generator.py list-categories">>,
     <<"">>,
     <<"Available categories:">> >>
  \o ConcatAll([i \in 1..Len(COMPONENT_CATEGORIES) |->
        << <<"  ">> \o COMPONENT_CATEGORIES[i].key \o <<": ">> \o COMPONENT_CATEGORIES[i].info.description,
           <<"    Examples: ">> \o str_join(<<", ">>, SubSeq(COMPONENT_CATEGORIES[i].info.examples, 1, 3)) >>])

\* lines 695-699
ListLines ==
  << <<"Available component categories:">> >>
  \o ConcatAll([i \in 1..Len(COMPONENT_CATEGORIES) |->
        << <<"\\n">> \o str_upper(COMPONENT_CATEGORIES[i].key) \o <<":">>,
           <<"  Description: ">> \o COMPONENT_CATEGORIES[i].info.description,
           <<"  Examples: ">> \o str_join(<<", ">>, COMPONENT_CATEGORIES[i].info.examples) >>])

\* lines 706-707 and 718-719
UnknownCategoryLines(category) ==
  << <<"Error: Unknown category '">> \o category \o <<"'">>,
     <<"Available categories: ">> \o str_join(<<", ">>, CategoryKeys) >>

\* line 715
SingleDescription(name, category) ==
  str_replace(str_title(name), "-", <<" ">>) \o <<" component for ">> \o category \o <<" functionality">>

\* line 681: the guard of the usage branch
TooFewArguments == Len(sys_argv) < 3

MainRest == UNCHANGED <<fs, today, runs, sys_argv, rin, rout, lastDone>>
NoCall == UNCHANGED <<frame, step, calls, oplog, startFs>>

\* lines 681-690
MainUsage ==
  /\ pc = "main"
  /\ TooFewArguments
  /\ out' = out \o UsageLines
  /\ pc' = "done"
  /\ UNCHANGED <<mode, pending, err>>
  /\ NoCall /\ MainRest

\* lines 694-700
MainListCategories ==
  /\ pc = "main"
  /\ ~TooFewArguments
  /\ Argv(1) = cmd_list_categories
  /\ out' = out \o ListLines
  /\ pc' = "done"
  /\ UNCHANGED <<mode, pending, err>>
  /\ NoCall /\ MainRest

\* lines 702-704: sys.argv[3] is read before the category is looked at
MainBatchIndexError ==
  /\ pc = "main"
  /\ ~TooFewArguments
  /\ Argv(1) # cmd_list_categories
  /\ Argv(1) = cmd_batch
  /\ Len(sys_argv) < 4
  /\ Fatal("IndexError")
  /\ UNCHANGED <<mode, pending, out>>
  /\ NoCall /\ MainRest

\* lines 702-708
MainBatchUnknownCategory ==
  /\ pc = "main"
  /\ ~TooFewArguments
  /\ Argv(1) # cmd_list_categories
  /\ Argv(1) = cmd_batch
  /\ Len(sys_argv) >= 4
  /\ ~InCategories(Argv(2))
  /\ out' = out \o UnknownCategoryLines(Argv(2))
  /\ pc' = "done"
  /\ UNCHANGED <<mode, pending, err>>
  /\ NoCall /\ MainRest

\* lines 702-709 and line 671: generate_category_batch is entered
MainBatch ==
  /\ pc = "main"
  /\ ~TooFewArguments
  /\ Argv(1) # cmd_list_categories
  /\ Argv(1) = cmd_batch
  /\ Len(sys_argv) >= 4
  /\ InCategories(Argv(2))
  /\ LET components == str_split(Argv(3), ",")
     IN  /\ mode' = [kind |-> "batch", category |-> Argv(2), count |-> Len(components)]
         /\ pending' = components
         /\ out' = Append(out, <<"Generating ", ToString(Len(components)), " components for category: ">> \o Argv(2))
  /\ pc' = "batch_loop"
  /\ UNCHANGED err
  /\ NoCall /\ MainRest

\* lines 713-720
MainSingleUnknownCategory ==
  /\ pc = "main"
  /\ ~TooFewArguments
  /\ Argv(1) # cmd_list_categories
  /\ Argv(1) # cmd_batch
  /\ ~InCategories(Argv(1))
  /\ out' = out \o UnknownCategoryLines(Argv(1))
  /\ pc' = "done"
  /\ UNCHANGED <<mode, pending, err>>
  /\ NoCall /\ MainRest

\* lines 713-722: generate_component is entered
MainSingle ==
  /\ pc = "main"
  /\ ~TooFewArguments
  /\ Argv(1) # cmd_list_categories
  /\ Argv(1) # cmd_batch
  /\ InCategories(Argv(1))
  /\ LET category == Argv(1)
         name == Argv(2)
     IN  IF Len(sys_argv) > 3
         THEN CallGenerate(name, category, Argv(3), "single-explicit")
         ELSE CallGenerate(name, category, SingleDescription(name, category), "single-default")
  /\ mode' = [kind |-> "single", category |-> Argv(1), count |-> 1]
  /\ UNCHANGED <<pending, out, err>>
  /\ MainRest

\* lines 723-724
SingleAfter ==
  /\ pc = "single_after"
  /\ out' = out \o << <<"\\nComponent generated successfully!">>,
                      <<"Run tests: rustform component test components/">> \o frame.category \o <<"/">> \o frame.name >>
  /\ pc' = "done"
  /\ UNCHANGED <<fs, today, runs, sys_argv, mode, pending, frame, step, err, calls, oplog, startFs, lastDone, rin, rout>>

(* ------------------------------ invocations ---------------------------- *)
k_nonexistent == <<"n","o","p","e">>
CategoryInputs == {k_auth, k_nonexistent}
NameInputs == {<<"a">>, <<"b","-","c">>}
DescriptionInputs == {<<"JWT auth component">>}
NameLists == { << <<"a">> >>, << <<"a">>, <<"b","-","c">> >>, << <<"b","-","c">>, <<"b","-","c">> >> }

\* the command lines the model runs the program with (sys.argv[1:])
ArgLists ==
  {<<>>, <<cmd_list_categories>>, <<cmd_batch>>}
  \cup {<<cmd_list_categories, n>> : n \in NameInputs}
  \cup {<<c>> : c \in CategoryInputs}
  \cup {<<cmd_batch, c>> : c \in CategoryInputs}
  \cup {<<cmd_batch, c, str_join(<<",">>, l)>> : c \in CategoryInputs, l \in NameLists}
  \cup {<<c, n>> : c \in CategoryInputs, n \in NameInputs}
  \cup {<<c, n, d>> : c \in CategoryInputs, n \in NameInputs, d \in DescriptionInputs}

\* the program is started from a shell; a run that ended in a traceback
\* is not followed further
Invoke ==
  /\ pc \in {"idle", "done"}
  /\ runs < MaxRuns
  /\ \E args \in ArgLists : sys_argv' = <<prog>> \o args
  /\ runs' = runs + 1
  /\ pc' = "main"
  /\ out' = <<>>
  /\ err' = "ok"
  /\ mode' = NoMode
  /\ pending' = <<>>
  /\ frame' = NoFrame
  /\ step' = 0
  /\ calls' = <<>>
  /\ oplog' = <<>>
  /\ startFs' = EmptyFs
  /\ UNCHANGED <<fs, today, lastDone, rin, rout>>

NoDone == [name |-> <<>>, category |-> <<>>, description |-> <<>>,
           base_path |-> <<>>, day |-> 0, via |-> "none", fs |-> EmptyFs]

Init ==
  /\ fs = EmptyFs
  /\ today = 1
  /\ runs = 0
  /\ sys_argv = <<prog>>
  /\ pc = "idle"
  /\ mode = NoMode
  /\ pending = <<>>
  /\ frame = NoFrame
  /\ step = 0
  /\ out = <<>>
  /\ err = "ok"
  /\ calls = <<>>
  /\ oplog = <<>>
  /\ startFs = EmptyFs
  /\ lastDone = NoDone
  /\ rin = None
  /\ rout = None

Next ==
  \/ Invoke
  \/ MainUsage
  \/ MainListCategories
  \/ MainBatchIndexError
  \/ MainBatchUnknownCategory
  \/ MainBatch
  \/ MainSingleUnknownCategory
  \/ MainSingle
  \/ SingleAfter
  \/ BatchNext
  \/ BatchDone
  \/ GenMkdir
  \/ GenMkdirFault
  \/ Tick
  \/ GenFilesToCreate
  \/ GenWrite
  \/ GenWriteFault
  \/ GenSummary

Spec == Init /\ [][Next]_vars

(* ------------------- the renderers on their own ------------------------ *)
\* Names the renderers are applied to: every kebab-case name of up to three
\* characters over a small alphabet, and names of the registry's examples.
KebabAlphabet == {"a", "j", "2", "-"}
jwt_authentication == <<"j","w","t","-","a","u","t","h","e","n","t","i","c","a","t","i","o","n">>
oauth2_providers == <<"o","a","u","t","h","2","-","p","r","o","v","i","d","e","r","s">>
WellFormed(n) ==
  /\ n # <<>>
  /\ n[1] # "-" /\ n[Len(n)] # "-"
  /\ \A i \in 1..(Len(n) - 1) : ~(n[i] = "-" /\ n[i+1] = "-")
RenderNames ==
  {n \in UNION {[1..k -> KebabAlphabet] : k \in 1..3} : WellFormed(n)}
  \cup {jwt_authentication, oauth2_providers, <<"x","-","y","-","z">>}

NoOutput == [path |-> None, manifest |-> None, handlers |-> None, models |-> None]

InitRender ==
  /\ fs = EmptyFs
  /\ today = 1
  /\ runs = 0
  /\ sys_argv = <<prog>>
  /\ pc = "idle"
  /\ mode = NoMode
  /\ pending = <<>>
  /\ frame = NoFrame
  /\ step = 0
  /\ out = <<>>
  /\ err = "ok"
  /\ calls = <<>>
  /\ oplog = <<>>
  /\ startFs = EmptyFs
  /\ lastDone = NoDone
  /\ \E n \in RenderNames, c \in {k_auth, k_ui} :
       rin = [name |-> n, category |-> c, description |-> SingleDescription(n, c)]
  /\ rout = NoOutput

RenderRest == UNCHANGED <<fs, today, runs, sys_argv, pc, mode, pending, frame, step, out,
                          err, calls, oplog, startFs, lastDone, rin>>

\* line 562
RenderPath ==
  /\ rout.path = None
  /\ rout' = [rout EXCEPT !.path = ComponentPath(<<"components">>, rin.category, rin.name)]
  /\ RenderRest

\* line 578
RenderManifest ==
  /\ rout.manifest = None
  /\ rout' = [rout EXCEPT !.manifest = create_component_manifest_yaml(rin.name, rin.category, rin.description)]
  /\ RenderRest

\* line 582
RenderHandlers ==
  /\ rout.handlers = None
  /\ rout' = [rout EXCEPT !.handlers = create_handlers_template(rin.name, rin.category)]
  /\ RenderRest

\* line 583
RenderModels ==
  /\ rout.models = None
  /\ rout' = [rout EXCEPT !.models = create_models_template(rin.name, rin.category)]
  /\ RenderRest

NextRender == RenderPath \/ RenderManifest \/ RenderHandlers \/ RenderModels

SpecRender == InitRender /\ [][NextRender]_vars

(* ------------------------------ properties ---------------------------- *)
\* The layout of section 6, relative to <basePath>/<category>/<name>/.
Section6Files ==
  { << <<"rustform-component.yml">> >>, << <<"README.md">> >>, << <<"CHANGELOG.md">> >>,
    << <<"Cargo.toml">> >>, << <<"handlers.rs.tera">> >>, << <<"models.rs.tera">> >>,
    << <<"middleware.rs.tera">> >>, << <<"src">>, <<"lib_test.rs">> >>,
    << <<"examples">>, <<"basic-usage.yml">> >>, << <<"examples">>, <<"advanced-config.yml">> >>,
    << <<"examples">>, <<"integration-test.yml">> >>,
    << <<"docs">>, <<"installation.md">> >>, << <<"docs">>, <<"configuration.md">> >>,
    << <<"docs">>, <<"api-reference.md">> >>, << <<"docs">>, <<"migration-guide.md">> >> }
Section6EmptyDirs ==
  { << <<"frontend">>, <<"components">> >>, << <<"frontend">>, <<"hooks">> >>, << <<"frontend">>, <<"types">> >>,
    << <<"assets">>, <<"icons">> >>, << <<"assets">>, <<"styles">> >>, << <<"assets">>, <<"images">> >> }

\* every proper and improper prefix of the paths of P
Ancestors(P) == UNION {{SubSeq(p, 1, k) : k \in 0..Len(p)} : p \in P}

\* the paths of a complete component tree rooted at root
TreePaths(root) == {root \o r : r \in Section6Files \cup Section6EmptyDirs}

InGenerate == frame.via # "none"
AllWritten == pc = "gen_summary"
Writes(p) == {i \in DOMAIN oplog : oplog[i].op = "write" /\ oplog[i].path = p}

\* f holds a complete component tree at root
CompleteTree(f, root) ==
  /\ \A r \in Section6Files :
       /\ root \o r \in DOMAIN f
       /\ f[root \o r].kind = "file"
       /\ f[root \o r].content # <<>>
  /\ \A r \in Section6EmptyDirs :
       /\ root \o r \in DOMAIN f
       /\ f[root \o r].kind = "dir"
       /\ \A q \in DOMAIN f : IsPrefix(root \o r, q) => q = root \o r

\* C1: a generate_component call started on an empty base path that has
\* performed all its steps leaves exactly the tree of section 6 under
\* <basePath>/<category>/<name>/: the 15 files, each written exactly once
\* and non-empty, the 6 empty directories, and nothing but these paths and
\* the directories that contain them.
C1_ExactTree ==
  (InGenerate /\ AllWritten /\ startFs = EmptyFs) =>
     /\ InCategories(frame.category)
     /\ Cardinality(Section6Files) = 15 /\ Cardinality(Section6EmptyDirs) = 6
     /\ CompleteTree(fs, FramePath)
     /\ \A r \in Section6Files : Cardinality(Writes(FramePath \o r)) = 1
     /\ DOMAIN fs = Ancestors(TreePaths(FramePath))

C1_Witness ==
  /\ InGenerate /\ AllWritten /\ startFs = EmptyFs
  /\ frame.name = <<"b","-","c">>
  /\ Cardinality({p \in DOMAIN fs : fs[p].kind = "file"}) = 15

\* the call in progress repeats the last completed call on the tree that
\* call left
SameArgs ==
  /\ frame.name = lastDone.name
  /\ frame.category = lastDone.category
  /\ frame.description = lastDone.description
  /\ frame.base_path = lastDone.base_path
Rerun == InGenerate /\ lastDone.via # "none" /\ SameArgs /\ startFs = lastDone.fs

ChangelogPath == FramePath \o << <<"CHANGELOG.md">> >>

\* C2: a second generate_component call with the same arguments on the
\* tree the first call produced does not fail because of that tree, and
\* leaves the same set of directories and files; every file is written
\* once and holds the rendering alone: what the first call wrote, or, for
\* CHANGELOG.md when the day has changed, the changelog of the new day.
C2_Idempotent ==
  Rerun =>
     /\ pc = "fatal" => err = "OSError"
     /\ AllWritten =>
          /\ DOMAIN fs = DOMAIN startFs
          /\ \A r \in Section6Files : Cardinality(Writes(FramePath \o r)) = 1
          /\ \A p \in DOMAIN fs :
               /\ fs[p].kind = startFs[p].kind
               /\ \/ fs[p] = startFs[p]
                  \/ /\ p = ChangelogPath
                     /\ frame.day # lastDone.day
                     /\ fs[p].content = create_changelog(frame.name, frame.day)

C2_Witness ==
  /\ Rerun /\ AllWritten
  /\ frame.day # lastDone.day
  /\ fs[ChangelogPath] # startFs[ChangelogPath]

\* the command line of the run, and what it selects
Args == Tail(sys_argv)
RunEnded == pc \in {"done", "fatal"}
BatchForm == Len(Args) >= 2 /\ Args[1] = cmd_batch
SingleForm == Len(Args) >= 2 /\ Args[1] \notin {cmd_batch, cmd_list_categories}
CategoryArgument == IF BatchForm THEN Args[2] ELSE Args[1]
SummaryLines == {i \in DOMAIN out : out[i][1] = "Generated component: "}

\* C3: a run in the single or the batch form whose category argument is
\* not a key of the registry prints the error naming the category and the
\* valid keys, returns without an exception and calls neither
\* generate_component nor generate_category_batch.
C3_UnknownCategoryRejected ==
  (RunEnded /\ (BatchForm \/ SingleForm) /\ ~InCategories(CategoryArgument)) =>
     /\ pc = "done" /\ err = "ok"
     /\ out = UnknownCategoryLines(CategoryArgument)
     /\ calls = <<>> /\ mode = NoMode

\* the required argument of the selected form is missing
MissingArgument ==
  \/ Len(Args) = 0
  \/ Len(Args) = 1 /\ Args[1] # cmd_list_categories
  \/ Len(Args) = 2 /\ Args[1] = cmd_batch

\* C4: a run that lacks a required argument (no arguments, a category
\* without a name, batch <category> without the names) prints the usage
\* text with the registry listing and returns normally, generating nothing.
C4_MissingArgumentsUsage ==
  (RunEnded /\ MissingArgument) =>
     /\ pc = "done" /\ err = "ok"
     /\ out = UsageLines
     /\ calls = <<>> /\ mode = NoMode

\* C5: the run whose arguments are exactly [list-categories] prints the
\* category listing, not the usage text: the listing's header, and for
\* every key of the registry exactly one entry with its description and
\* its full example list; nothing is generated.
C5_ListCategories ==
  (RunEnded /\ Args = <<cmd_list_categories>>) =>
     /\ pc = "done" /\ err = "ok"
     /\ out # <<>> /\ out[1] = <<"Available component categories:">>
     /\ \A j \in DOMAIN out : out[j] # UsageLines[1]
     /\ \A i \in 1..Len(CategoryKeys) :
          \E j \in DOMAIN out :
             /\ \A k \in DOMAIN out : out[k] = out[j] <=> k = j
             /\ out[j] = <<"\\n">> \o str_upper(CategoryKeys[i]) \o <<":">>
             /\ j + 2 \in DOMAIN out
             /\ CategoryInfo[i].description # <<>> /\ CategoryInfo[i].examples # <<>>
             /\ out[j+1] = <<"  Description: ">> \o CategoryInfo[i].description
             /\ out[j+2] = <<"  Examples: ">> \o str_join(<<", ">>, CategoryInfo[i].examples)
     /\ calls = <<>> /\ mode = NoMode

\* the names a batch run was given
BatchNames == CHOOSE l \in NameLists : Args[3] = str_join(<<",">>, l)
Root(category, name) == ComponentPath(<<"components">>, category, name)
Under(f, root) == {p \in DOMAIN f : IsPrefix(root, p)}

\* the call in progress generates, in one of the two forms, the component
\* that the last completed call generated in the other form
CrossForm ==
  /\ InGenerate
  /\ {frame.via, lastDone.via} = {"batch", "single-default"}
  /\ frame.name = lastDone.name /\ frame.category = lastDone.category
  /\ startFs = lastDone.fs

C6_State ==
  /\ frame.via = "batch" => frame.description = SingleDescription(frame.name, frame.category)
  /\ (mode.kind = "batch" /\ pc = "done") =>
        \A i \in DOMAIN BatchNames : CompleteTree(fs, Root(mode.category, BatchNames[i]))
  /\ (CrossForm /\ AllWritten) =>
        /\ Under(fs, FramePath) = Under(lastDone.fs, FramePath)
        /\ \A r \in Section6Files : Cardinality(Writes(FramePath \o r)) = 1
        /\ \A p \in Under(fs, FramePath) :
             \/ fs[p] = lastDone.fs[p]
             \/ /\ p = ChangelogPath
                /\ frame.day # lastDone.day
                /\ fs[p].content = create_changelog(frame.name, frame.day)

C6_Step ==
  InGenerate =>
     /\ \A p \in DOMAIN fs : ~IsPrefix(FramePath, p) => (p \in DOMAIN fs' /\ fs'[p] = fs[p])
     /\ \A p \in (DOMAIN fs') \ (DOMAIN fs) : IsPrefix(FramePath, p) \/ IsPrefix(p, FramePath)

\* C6: a batch passes each name the description the single form defaults
\* to; a completed batch leaves one complete tree per name; a component
\* generated in one form over the tree the other form left has the same
\* paths and, the changelog's date apart, the same contents; and no step
\* of generate_component creates or changes a path outside the root of the
\* component it is called for, the root's ancestors apart.
C6_BatchEqualsSingle == [](C6_State) /\ [][C6_Step]_vars

C6_Witness ==
  /\ CrossForm /\ AllWritten /\ frame.via = "batch"
  /\ frame.name = <<"a">> /\ BatchNames = << <<"a">>, <<"b","-","c">> >>

InBatch == mode.kind = "batch"
CompletionLines == {i \in DOMAIN out : out[i][1] = "Completed "}

\* generate_component is called once per element of the list, in order
C7_Order ==
  InBatch =>
     /\ IsPrefix(calls, BatchNames)
     /\ pending = SubSeq(BatchNames, Len(calls) + 1, Len(BatchNames))
     /\ Cardinality(CompletionLines) = (IF pc = "done" THEN 1 ELSE 0)
     /\ pc = "done" => calls = BatchNames /\ Cardinality(SummaryLines) = Len(BatchNames)

\* C7 as stated: the calls are made once per element in list order; when
\* the call for the i-th name raises, the names after it are not called,
\* the tree of every name before it is fully written and the completion
\* line is not printed.
C7_Original ==
  /\ C7_Order
  /\ (InBatch /\ pc = "fatal") =>
        /\ err # "ok"
        /\ Cardinality(SummaryLines) = Len(calls) - 1
        /\ \A j \in 1..(Len(calls) - 1) : CompleteTree(fs, Root(mode.category, calls[j]))

\* C7 amended: as C7, with the trees that stay fully written being those
\* of the earlier names that differ from the name whose call raised.
C7_BatchOrderAndAbort ==
  /\ C7_Order
  /\ (InBatch /\ pc = "fatal") =>
        /\ err # "ok"
        /\ Cardinality(SummaryLines) = Len(calls) - 1
        /\ \A j \in 1..(Len(calls) - 1) :
             calls[j] # calls[Len(calls)] => CompleteTree(fs, Root(mode.category, calls[j]))

C7_Witness ==
  /\ InBatch /\ pc = "fatal"
  /\ calls = << <<"a">>, <<"b","-","c">> >>
  /\ Len(oplog) > 12
  /\ CompleteTree(fs, Root(mode.category, <<"a">>))

\* the 25 steps of the call in progress, in program order, and the number
\* of them that have completed
AllFiles ==
  files_to_create(frame.name, frame.category, frame.description, frame.day)
  \o examples(frame.name, frame.category) \o docs(frame.name)
NDirs == Len(DirSteps)
StepsDone == Len(oplog)

\* C10: a filesystem fault at the k-th step of generate_component ends the
\* run with the exception (no state with an exception raised is anything
\* but the end of the run); the directories and files of the k-1 steps
\* before it are on the filesystem, each file with the content written;
\* the paths of the files after the k-th are as they were when the call
\* started; and the summary of the call is not printed.
C10_FaultNoRollback ==
  /\ err # "ok" <=> pc = "fatal"
  /\ (pc = "fatal" /\ InGenerate) =>
        LET all == AllFiles
        IN  /\ StepsDone < NDirs + Len(all)
            /\ \A i \in DOMAIN oplog :
                 /\ oplog[i].path \in DOMAIN fs
                 /\ IF i <= NDirs
                    THEN /\ oplog[i] = [op |-> "mkdir", path |-> FramePath \o DirSteps[i].rel]
                         /\ fs[oplog[i].path] = Dir
                    ELSE /\ oplog[i] = [op |-> "write", path |-> FramePath \o all[i - NDirs].rel]
                         /\ fs[oplog[i].path] = File(all[i - NDirs].content)
                         /\ all[i - NDirs].content # <<>>
            /\ \A j \in DOMAIN all :
                 j > StepsDone + 1 - NDirs =>
                   LET p == FramePath \o all[j].rel
                   IN  /\ p \in DOMAIN fs <=> p \in DOMAIN startFs
                       /\ p \in DOMAIN fs => fs[p] = startFs[p]
            /\ Cardinality(SummaryLines) = Len(calls) - 1

C10_Witness ==
  /\ pc = "fatal" /\ InGenerate /\ err = "OSError"
  /\ StepsDone = 13
  /\ startFs = EmptyFs
  /\ FramePath \o AllFiles[4].rel \in DOMAIN fs
  /\ fs[FramePath \o AllFiles[4].rel] = File(<<>>)

\* the write operations the call in progress has completed, and the
\* distinct paths they wrote
WriteOps == {i \in DOMAIN oplog : oplog[i].op = "write"}
WrittenPaths == {oplog[i].path : i \in WriteOps}
FilesLine(n) == <<"   Files: ", ToString(n), " files created">>
SummaryPrinted == pc = "gen_summary" /\ pc' # "gen_summary"

\* the entries of the three write loops name pairwise distinct paths
C11_State ==
  InWriteLoop =>
    LET all == AllFiles
    IN  \A i, j \in DOMAIN all : all[i].rel = all[j].rel => i = j

\* the step that prints the summary: its last line reports the number of
\* distinct paths written by the call, each write went to a path of its
\* own, every written path holds a file, and the number is 15
C11_Step ==
  SummaryPrinted =>
    /\ Len(out') = Len(out) + 3
    /\ out'[Len(out')] = FilesLine(Cardinality(WrittenPaths))
    /\ Cardinality(WrittenPaths) = Cardinality(WriteOps)
    /\ Cardinality(WrittenPaths) = 15
    /\ \A p \in WrittenPaths : p \in DOMAIN fs /\ fs[p].kind = "file"

\* C11: whenever generate_component prints its summary, the file count
\* it reports equals the number of distinct file paths written during
\* that call, which is 15 for every name and category; the paths of the
\* three write loops are pairwise distinct, so that no file is counted
\* twice or overwritten within one call.
C11_FileCountReported == [](C11_State) /\ [][C11_Step]_vars

C11_Witness ==
  /\ pc = "single_after"
  /\ frame.name = <<"b","-","c">>
  /\ out[Len(out)] = FilesLine(15)
  /\ Cardinality(WrittenPaths) = 15
  /\ runs = 2

\* the mkdir calls the call in progress has completed, and their paths
MkdirOps == {i \in DOMAIN oplog : oplog[i].op = "mkdir"}
MadeDirs == {oplog[i].path : i \in MkdirOps}
\* the component root, src/, examples/ and docs/
FileParents == {FramePath, FramePath \o <<seg_src>>, FramePath \o <<seg_examples>>, FramePath \o <<seg_docs>>}

\* C12: within one generate_component call every directory creation
\* precedes every file write; at the moment a file is opened for writing
\* all the mkdir calls have completed and its parent directory (the
\* component root, src/, examples/ or docs/) is the path of one of them
\* and is a directory on the filesystem; so that opening the file does
\* not fail for a missing parent, and no run ends with
\* FileNotFoundError or NotADirectoryError.
C12_DirsBeforeWrites ==
  /\ \A i \in WriteOps : \A j \in MkdirOps : j < i
  /\ \A i \in WriteOps :
       \E j \in MkdirOps : j < i /\ oplog[j].path = Parent(oplog[i].path)
  /\ pc = "gen_mkdir" => WriteOps = {}
  /\ InWriteLoop =>
       LET p == FramePath \o LoopList[step].rel
       IN  /\ Cardinality(MkdirOps) = NDirs
           /\ Parent(p) \in FileParents
           /\ Parent(p) \in MadeDirs
           /\ Parent(p) \in DOMAIN fs /\ fs[Parent(p)] = Dir
           /\ OpenW(fs, p).err = "ok"
  /\ err \notin {"FileNotFoundError", "NotADirectoryError"}

C12_Witness ==
  /\ pc = "gen_write_docs" /\ step = 2
  /\ startFs = EmptyFs
  /\ Cardinality(MkdirOps) = 10 /\ Cardinality(WriteOps) = 12
  /\ oplog[Len(oplog)].path = FramePath \o <<seg_docs, <<"installation.md">> >>
  /\ FramePath \o <<seg_docs>> \in MadeDirs
  /\ FramePath \o <<seg_docs>> \notin DOMAIN startFs

(* ---------------------- properties of the renderers -------------------- *)
Digits == {"0","1","2","3","4","5","6","7","8","9"}
IsIdentChar(x) == IsCased(x) \/ x \in Digits \/ x \in {"-", "_"}

\* the identifier characters that follow, or precede, position i of a text
RunAfter(text, i) ==
  LET stop == {j \in (i+1)..Len(text) : ~IsIdentChar(text[j])}
      end == IF stop = {} THEN Len(text) + 1 ELSE CHOOSE j \in stop : \A k \in stop : j <= k
  IN  SubSeq(text, i + 1, end - 1)
RunBefore(text, i) ==
  LET stop == {j \in 1..(i-1) : ~IsIdentChar(text[j])}
      start == IF stop = {} THEN 0 ELSE CHOOSE j \in stop : \A k \in stop : j >= k
  IN  SubSeq(text, start + 1, i - 1)
Contains(text, sub) == \E i \in 1..(Len(text) - Len(sub) + 1) : SubSeq(text, i, i + Len(sub) - 1) = sub

HandlerTypeNames(text) == {RunBefore(text, i) : i \in {j \in DOMAIN text : text[j] \in {"Request", "Response"}}}
ModelTypeNames(text) == {RunAfter(text, i) : i \in {j \in DOMAIN text : text[j] \in {"pub struct ", "impl "}}}
RouteSegments(text) == {RunAfter(text, i) : i \in {j \in DOMAIN text : text[j] = ".route(\"/"}}
TableNames(text) ==
  {RunAfter(text, i) : i \in {j \in DOMAIN text : text[j] \in {"INSERT INTO ", "FROM ", "UPDATE ", "DELETE FROM "}}}
ManifestName(text) == RunAfter(text, 1)

\* each hyphen-separated word capitalised, hyphens removed
CapWords(n) ==
  SelectSeq([i \in 1..Len(n) |-> IF i = 1 \/ n[i-1] = "-" THEN ToUpper(n[i]) ELSE n[i]],
            LAMBDA c : c # "-")
LettersAndHyphens(n) == \A i \in 1..Len(n) : IsLower(n[i]) \/ n[i] = "-"
\* each hyphen made an underscore
SnakeOf(n) == [i \in 1..Len(n) |-> IF n[i] = "-" THEN "_" ELSE n[i]]

JwtAuthenticationRequest ==
  <<"J","w","t","A","u","t","h","e","n","t","i","c","a","t","i","o","n","Request">>
jwt_authentication_snake ==
  <<"j","w","t","_","a","u","t","h","e","n","t","i","c","a","t","i","o","n">>

\* C8: the type name before every Request and Response of the rendered
\* handlers is the one name of the record type of the rendered models
\* (for a name of lowercase letters and hyphens: its words capitalised and
\* joined); for jwt-authentication the handlers hold JwtAuthenticationRequest
\* and the route segment jwt_authentication, and the manifest's name field
\* is jwt-authentication.
C8_PascalConsistent ==
  /\ (rout.handlers # None /\ rout.models # None) =>
        /\ HandlerTypeNames(rout.handlers) = ModelTypeNames(rout.models)
        /\ Cardinality(ModelTypeNames(rout.models)) = 1
        /\ LettersAndHyphens(rin.name) => ModelTypeNames(rout.models) = {CapWords(rin.name)}
  /\ (rout.handlers # None /\ rin.name = jwt_authentication) =>
        /\ Contains(rout.handlers, JwtAuthenticationRequest)
        /\ jwt_authentication_snake \in RouteSegments(rout.handlers)
  /\ (rout.manifest # None /\ rin.name = jwt_authentication) =>
        /\ rout.manifest[1] = "name: "
        /\ ManifestName(rout.manifest) = jwt_authentication

C8_Witness ==
  /\ rin.name = jwt_authentication
  /\ rout.handlers # None /\ rout.models # None /\ rout.manifest # None
  /\ HandlerTypeNames(rout.handlers) = {SubSeq(JwtAuthenticationRequest, 1, 17)}

\* C9 as stated: the name as it stands in the component's path, hyphens
\* kept, is the route segment of the handlers and the table name of the
\* models.
C9_Original ==
  /\ (rout.path # None /\ rout.handlers # None) => RouteSegments(rout.handlers) = {rout.path[3]}
  /\ (rout.path # None /\ rout.models # None) => TableNames(rout.models) = {rout.path[3]}

\* C9 amended: the route segments of the handlers and the table names of
\* the models are the snake form of the name that stands in the path, each
\* hyphen made an underscore; they equal the path's name exactly when it
\* has no hyphen.
C9_SnakeInRoutesAndTables ==
  /\ (rout.path # None /\ rout.handlers # None) =>
        /\ rout.path[3] = rin.name
        /\ RouteSegments(rout.handlers) = {SnakeOf(rout.path[3])}
        /\ RouteSegments(rout.handlers) = {rout.path[3]} <=> \A i \in DOMAIN rin.name : rin.name[i] # "-"
  /\ (rout.path # None /\ rout.models # None) =>
        /\ TableNames(rout.models) = {SnakeOf(rout.path[3])}
        /\ TableNames(rout.models) = {rout.path[3]} <=> \A i \in DOMAIN rin.name : rin.name[i] # "-"

C9_Witness ==
  /\ rin.name = <<"x","-","y","-","z">>
  /\ rout.path # None /\ rout.handlers # None /\ rout.models # None
  /\ RouteSegments(rout.handlers) = {<<"x","_","y","_","z">>}

====
